---- MODULE Spec2Model ----
(***************************************************************************)
(* Incremental ingestion engine of Yaml-Pipe: the change-detection ledger, *)
(* the sinks' delete-by-origin / insert protocol and the orchestrator that *)
(* ties them together.  Two generations of the orchestrator live in the    *)
(* repository and both are modelled: yamlpipe/core/pipeline.py             *)
(* (impl = "yamlpipe") and vectorflow/core/pipeline.py                     *)
(* (impl = "vectorflow"), each with the sinks and the state manager of its *)
(* own package.  The ledger operations of the state managers, including   *)
(* the one of the first, flat vectorflow package (vectorflow/               *)
(* state_manager.py), are also specified on their own (LedgerSpec), and so  *)
(* are the schema synthesis of the LanceDB sink (SchemaSpec) and a run     *)
(* over the PostgreSQL source, which no registry names (PostgresSpec), and *)
(* a state manager over its two back ends (StoreSpec).                     *)
(*                                                                         *)
(* Content is abstracted to a version number per item; a fingerprint       *)
(* (sha256 digest, ETag) is the version it was computed from, so two       *)
(* fingerprints are equal exactly when the contents are.                   *)
(***************************************************************************)
EXTENDS Integers, Sequences, FiniteSets, Bags, TLC

\* ----------------------------------------------------------------- bounds
MaxVer == 2
MaxRuns == 2
MaxFaults == 2
MaxChunks == 2
MaxDim == 2
MaxClock == 3

\* -------------------------------------------------------------- constants
Items == {"A", "B"}
ItemOrder == <<"A", "B">>
WebUrl == "A"
NoHash == 0
Impls == {"yamlpipe", "vectorflow"}
SinkKinds == {"lancedb", "chromadb"}
Generations == Impls \cup {"vectorflow_flat"}
Roles == <<"source", "chunker", "embedder", "sink">>
NoType == "<no type key>"
BadTypes == {NoType, "", "invalid_type"}
NoEmbedding == <<>>
PgUrl == "postgres://user@host/database"

VARIABLES
    impl, sinkKind, srcType, config,
    content, disk, tableExists, tableSchema, table,
    pc, state, docs, pending, all_chunks, processed_docs,
    runs, faults,
    state0, disk0, table0, loadContent, changed, loadFailed, chunkRaised,
    injected, sinkResult, failedAt, prev,
    call,
    batch, schemas, records,
    pg,
    backend, store

cfg == <<impl, sinkKind, srcType, config>>
world == <<content, disk, tableExists, tableSchema, table>>
run == <<pc, state, docs, pending, all_chunks, processed_docs>>
hist == <<state0, disk0, table0, loadContent, changed, loadFailed, chunkRaised,
          injected, sinkResult, failedAt, prev>>
synth == <<batch, schemas, records>>
kv == <<backend, store>>
unit == <<synth, pg, kv>>
vars == <<cfg, world, run, runs, faults, hist, call, unit>>

\* ------------------------------------------------------- helper operators
RECURSIVE SeqToBag(_)
SeqToBag(s) == IF s = <<>> THEN EmptyBag ELSE SetToBag({Head(s)}) (+) SeqToBag(Tail(s))

EmptyLedger == [i \in Items |-> NoHash]

\* SOURCE_REGISTRY of each package
SourceTypes(im) ==
    IF im = "yamlpipe" THEN {"local_files", "web", "s3"} ELSE {"local_files", "web"}

\* CHUNKER_REGISTRY, EMBEDDER_REGISTRY and SINK_REGISTRY are the same in both
Registry(im, role) ==
    CASE role = "source" -> SourceTypes(im)
      [] role = "chunker" -> {"recursive_character", "markdown", "adaptive"}
      [] role = "embedder" -> {"sentence_transformer"}
      [] OTHER -> SinkKinds

\* variant of build_component: a type the registry does not know is not rejected
build_component_lenient(component_config, registry) ==
    LET component_type == IF component_config = NoType THEN "" ELSE component_config
    IN  IF component_type = "" THEN "ValueError"
        ELSE component_type

\* build_component: the class name the registry gives for the configured
\* type, or the exception raised
build_component(component_config, registry) ==
    LET component_type == IF component_config = NoType THEN "" ELSE component_config
    IN  IF component_type = "" THEN "ValueError"
        ELSE IF component_type \notin registry THEN "ValueError"
        ELSE component_type

\* key of the item -> fingerprint map inside the state dictionary
LedgerKey(im) == IF im = "yamlpipe" THEN "processed_items" ELSE "processed_files"

\* ------------------------------------------------------------ state manager
\* sha256 of the file's bytes; a URL is not a readable file path
get_file_hash(i, st) == IF st = "local_files" THEN content[i] ELSE NoHash

has_changed(i, st) ==
    LET current_hash == get_file_hash(i, st)
    IN  IF current_hash = NoHash THEN FALSE ELSE current_hash # state[i]

\* variant of update_state: the fingerprint is computed but not stored
update_state_lost(ledger, i, st) ==
    LET current_hash == get_file_hash(i, st)
    IN  IF current_hash # NoHash THEN ledger ELSE ledger

update_state(ledger, i, st) ==
    LET current_hash == get_file_hash(i, st)
    IN  IF current_hash # NoHash THEN [ledger EXCEPT ![i] = current_hash] ELSE ledger

load_state == disk

\* yamlpipe's has_changed(item_id, new_hash) and update_file_state(item_id,
\* new_hash): with a hash given, the item is not read
has_changed_hash(i, new_hash, st) ==
    IF new_hash = NoHash THEN has_changed(i, st) ELSE new_hash # state[i]

update_file_state(ledger, i, new_hash, st) ==
    IF new_hash = NoHash THEN update_state(ledger, i, st)
    ELSE [ledger EXCEPT ![i] = new_hash]

\* ------------------------------------------------------------------ chunkers
\* The adaptive chunker picks its splitter from the content; the number of
\* chunks grows with the content.
decide_strategy(v) == IF v % 2 = 0 THEN "markdown" ELSE "recursive"
NumChunks(v) == v

\* variant of chunk: the chunks get the origin of another item
chunk_other_origin(doc) ==
    [k \in 1..NumChunks(doc.ver) |->
        [source |-> CHOOSE i \in Items : i # doc.source, ver |-> doc.ver, idx |-> k,
         kind |-> decide_strategy(doc.ver), embedding |-> NoEmbedding]]

chunk(doc) ==
    [k \in 1..NumChunks(doc.ver) |->
        [source |-> doc.source, ver |-> doc.ver, idx |-> k,
         kind |-> decide_strategy(doc.ver), embedding |-> NoEmbedding]]

\* the text of a chunk, and the vector an order-preserving embedder returns for it
ChunkText(c) == <<c.source, c.ver, c.idx>>
embed(texts) == [k \in 1..Len(texts) |-> texts[k]]

\* ---------------------------------------------------------- schema synthesis
TYPE_MAP == {"str", "int", "float", "list", "datetime"}

\* metadata keys of a chunk in insertion order: the parent's keys, then the
\* key the splitter adds, then the embedding once it is attached
MetadataKeys(c) ==
    <<"source">>
    \o (IF c.kind = "recursive" THEN <<"chunk_index">> ELSE <<"Header 1">>)
    \o (IF c.embedding = NoEmbedding THEN <<>> ELSE <<"embedding">>)

MetadataType(key) ==
    CASE key = "source" -> "str"
      [] key = "chunk_index" -> "int"
      [] key = "Header 1" -> "str"
      [] OTHER -> "ndarray"

\* A metadata dictionary is the sequence of its items in insertion order.  An
\* item is <<key, type(value), shape>>, shape being shape[0] of an ndarray
\* value and 0 for any other value.
metadata(c) ==
    [k \in 1..Len(MetadataKeys(c)) |->
        LET key == MetadataKeys(c)[k]
        IN  <<key, MetadataType(key),
              IF key = "embedding" THEN Len(c.embedding) ELSE 0>>]

Metadatas(documents) == [k \in 1..Len(documents) |-> metadata(documents[k])]

HasKey(md, key) == \E k \in 1..Len(md) : md[k][1] = key
Get(md, key) == md[CHOOSE k \in 1..Len(md) : md[k][1] = key]

\* a field (of a schema or of a record) is <<name, type, width>>
FieldNames(fields) == {fields[k][1] : k \in 1..Len(fields)}

\* d[key] = value: a dictionary keeps the position of a key it already has
DictSet(d, item) ==
    IF item[1] \in FieldNames(d)
    THEN [k \in 1..Len(d) |-> IF d[k][1] = item[1] THEN item ELSE d[k]]
    ELSE Append(d, item)

\* variant of discover: the type seen last for a key replaces the one seen before
discover_last_type(metadata_fields, item) ==
    IF item[2] \in TYPE_MAP
    THEN DictSet(metadata_fields, <<item[1], item[2], 0>>)
    ELSE metadata_fields

\* "if key not in metadata_fields and type(value) in TYPE_MAP:
\*      metadata_fields[key] = type(value)"
discover(metadata_fields, item) ==
    IF item[1] \notin FieldNames(metadata_fields) /\ item[2] \in TYPE_MAP
    THEN Append(metadata_fields, <<item[1], item[2], 0>>)
    ELSE metadata_fields

RECURSIVE DiscoverKeys(_, _)
DiscoverKeys(items, acc) ==
    IF items = <<>> THEN acc
    ELSE DiscoverKeys(Tail(items), discover(acc, Head(items)))

RECURSIVE DiscoverFields(_, _)
DiscoverFields(documents, acc) ==
    IF documents = <<>> THEN acc
    ELSE DiscoverFields(Tail(documents), DiscoverKeys(Head(documents), acc))

IsNotEmbedding(f) == f[1] # "embedding"

\* Step 4: pydantic_fields[key] = TYPE_MAP[value_type] for every discovered
\* key but "embedding"
RECURSIVE AddFields(_, _)
AddFields(metadata_fields, pydantic_fields) ==
    IF metadata_fields = <<>> THEN pydantic_fields
    ELSE AddFields(Tail(metadata_fields),
                   IF IsNotEmbedding(Head(metadata_fields))
                   THEN DictSet(pydantic_fields, Head(metadata_fields))
                   ELSE pydantic_fields)

\* documents: the metadata dictionaries of the documents, in list order
create_dynamic_pydantic_model(documents) ==
    IF documents = <<>>
    THEN [err |-> "ValueError", fields |-> <<>>]
    ELSE LET first == Head(documents)
             metadata_fields == DiscoverFields(documents, <<>>)
         IN  IF ~HasKey(first, "embedding") \/ Get(first, "embedding")[2] # "ndarray"
             THEN [err |-> "ValueError", fields |-> <<>>]
             ELSE IF \E k \in 1..Len(metadata_fields) :
                        /\ IsNotEmbedding(metadata_fields[k])
                        /\ metadata_fields[k][2] \notin TYPE_MAP
             THEN [err |-> "TypeError", fields |-> <<>>]
             ELSE [err |-> "none",
                   fields |-> AddFields(metadata_fields,
                                        <<<<"text", "str", 0>>,
                                          <<"vector", "Vector",
                                            Get(first, "embedding")[3]>>>>)]

\* LanceDBSink.sink: record = {"text": doc.content, "vector":
\* doc.metadata.get("embedding")}, then record[key] = value for every
\* metadata key but "embedding"
RECURSIVE AddItems(_, _)
AddItems(items, rec) ==
    IF items = <<>> THEN rec
    ELSE AddItems(Tail(items),
                  IF IsNotEmbedding(Head(items)) THEN DictSet(rec, Head(items)) ELSE rec)

record(md) ==
    AddItems(md, <<<<"text", "str", 0>>,
                   IF HasKey(md, "embedding")
                   THEN <<"vector", Get(md, "embedding")[2], Get(md, "embedding")[3]>>
                   ELSE <<"vector", "NoneType", 0>>>>)

\* ---------------------------------------------------------------------- sinks
\* Outcomes of the calls a sink makes to its vector store.
SinkEnvs ==
    [connect : BOOLEAN, schema : BOOLEAN,
     notFound : {"FileNotFoundError", "ValueError"},
     migrate : {"ok", "before_drop", "after_drop", "after_create"},
     delete : BOOLEAN, add : BOOLEAN]

BatchSources(documents) == {documents[k].source : k \in 1..Len(documents)}

\* table.delete(where="source = 'a' OR source = 'b'")
DeleteBySource(rows, sources) ==
    [r \in {x \in DOMAIN rows : x.source \notin sources} |-> rows[r]]

SinkOutcome(ex, sch, rows, res, hit) ==
    [exists |-> ex, schema |-> sch, rows |-> rows, result |-> res, hit |-> hit]

\* variant of DeleteThenAdd: the batch is inserted first and the delete by
\* origin runs after it
AddThenDelete(ex, sch, rows, documents, env, hit, deleteFatal, addFatal) ==
    LET sources_to_delete == BatchSources(documents)
        hitD == IF env.delete THEN hit ELSE hit \cup {"delete"}
        afterAdd == rows (+) SeqToBag(documents)
    IN  IF ~env.add
        THEN SinkOutcome(ex, sch, rows,
                         IF addFatal THEN "raise" ELSE "swallowed", hit \cup {"add"})
        ELSE IF ~env.delete
        THEN SinkOutcome(ex, sch, afterAdd, IF deleteFatal THEN "raise" ELSE "ok", hitD)
        ELSE SinkOutcome(ex, sch, DeleteBySource(afterAdd, sources_to_delete), "ok", hitD)

\* delete-by-origin then insert, shared tail of both sinks.  deleteFatal and
\* addFatal say whether the sink lets the store's exception escape.
DeleteThenAdd(ex, sch, rows, documents, env, hit, deleteFatal, addFatal) ==
    LET sources_to_delete == BatchSources(documents)
        afterDelete == IF env.delete THEN DeleteBySource(rows, sources_to_delete) ELSE rows
        hitD == IF env.delete THEN hit ELSE hit \cup {"delete"}
    IN  IF ~env.delete /\ deleteFatal
        THEN SinkOutcome(ex, sch, rows, "raise", hitD)
        ELSE IF ~env.add
        THEN SinkOutcome(ex, sch, afterDelete,
                         IF addFatal THEN "raise" ELSE "swallowed", hitD \cup {"add"})
        ELSE SinkOutcome(ex, sch, afterDelete (+) SeqToBag(documents), "ok", hitD)

\* yamlpipe: _handle_schema_mismatch copies the old rows into the re-created
\* table; vectorflow drops and re-creates the table.
handle_schema_mismatch(im, new_schema, env) ==
    CASE env.migrate = "before_drop" ->
            SinkOutcome(tableExists, tableSchema, table, "raise", {"migrate"})
      [] env.migrate = "after_drop" ->
            SinkOutcome(FALSE, <<>>, EmptyBag, "raise", {"migrate"})
      [] env.migrate = "after_create" /\ im = "yamlpipe" ->
            SinkOutcome(TRUE, new_schema, EmptyBag, "raise", {"migrate"})
      [] OTHER ->
            SinkOutcome(TRUE, new_schema,
                        IF im = "yamlpipe" THEN table ELSE EmptyBag, "ok", {})

\* db.open_table and what follows it up to the point a usable table exists
OpenOrCreate(im, new_schema, env) ==
    IF tableExists
    THEN IF tableSchema # new_schema
         THEN handle_schema_mismatch(im, new_schema, env)
         ELSE SinkOutcome(TRUE, tableSchema, table, "ok", {})
    ELSE IF im = "yamlpipe"
         \* the handler of the missing table reads a name that is not bound
         THEN SinkOutcome(FALSE, tableSchema, table, "raise", {})
         ELSE IF env.notFound = "FileNotFoundError"
              THEN SinkOutcome(TRUE, new_schema, EmptyBag, "ok", {})
              ELSE SinkOutcome(FALSE, tableSchema, table, "raise", {})

LanceDBSink_sink(im, documents, env) ==
    LET same(res, hit) == SinkOutcome(tableExists, tableSchema, table, res, hit)
        model == create_dynamic_pydantic_model(Metadatas(documents))
        opened == OpenOrCreate(im, model.fields, env)
    IN  IF im = "yamlpipe" /\ documents = <<>> THEN same("early", {})
        ELSE IF ~env.connect THEN same("raise", {"connect"})
        ELSE IF documents = <<>> THEN same("early", {})
        ELSE IF model.err # "none" THEN same("early", {})
        ELSE IF ~env.schema THEN same("early", {"schema"})
        ELSE IF opened.result = "raise" THEN opened
        ELSE DeleteThenAdd(opened.exists, opened.schema, opened.rows, documents,
                           env, opened.hit, FALSE, TRUE)

ChromaDBSink_sink(im, documents, env) ==
    LET same(res, hit) == SinkOutcome(tableExists, tableSchema, table, res, hit)
    IN  IF im = "yamlpipe" /\ documents = <<>> THEN same("early", {})
        ELSE IF ~env.connect THEN same("raise", {"connect"})
        ELSE IF documents = <<>> THEN SinkOutcome(TRUE, tableSchema, table, "early", {})
        ELSE DeleteThenAdd(TRUE, tableSchema, table, documents, env, {},
                           im = "vectorflow", im = "vectorflow")

sink(im, sk, documents, env) ==
    IF sk = "lancedb" THEN LanceDBSink_sink(im, documents, env)
    ELSE ChromaDBSink_sink(im, documents, env)

\* ------------------------------------------------------------------- sources
\* subsequence of ItemOrder holding the items of a set
RECURSIVE Restrict(_, _)
Restrict(seq, keep) ==
    IF seq = <<>> THEN <<>>
    ELSE (IF Head(seq) \in keep THEN <<Head(seq)>> ELSE <<>>) \o Restrict(Tail(seq), keep)

MakeDocs(seq) == [k \in 1..Len(seq) |-> [source |-> seq[k], ver |-> content[seq[k]]]]

\* LocalFileSource.load_data: the files whose hash differs from the ledger
new_or_changed_files == {i \in Items : has_changed(i, "local_files")}

\* S3Source.load_data: the objects whose ETag differs from the recorded one
new_or_changed_objects == {i \in Items : content[i] # state[i]}

\* ------------------------------------------------------------- initial state
RecursiveSchema ==
    <<<<"text", "str", 0>>, <<"vector", "Vector", 3>>, <<"source", "str", 0>>,
      <<"chunk_index", "int", 0>>>>

NoPrev == [pc |-> "Idle", failedAt |-> "none", loadContent |-> [i \in Items |-> 0],
           changed |-> {}, loadFailed |-> {}, injected |-> {}]

\* the database clock, the timestamp column of each row, the ledger's
\* last_run_timestamp in memory and in the backing store (0: the key is
\* absent), and what the last load_data read and returned
NoPg == [clock |-> 1, updated_at |-> [i \in Items |-> 1], last_run_timestamp |-> 0,
         stored |-> 0, last_run_ts |-> 0, rows |-> {}]

NoCall == [op |-> "none", item |-> "A", given |-> NoHash, fp |-> NoHash,
           result |-> "none", again |-> FALSE, fallback |-> FALSE]

\* the pipeline configuration file: the types of the four components, all
\* valid or one of them missing, empty or unknown
ValidConfig(st, sk) ==
    [source |-> st, chunker |-> "adaptive", embedder |-> "sentence_transformer", sink |-> sk]

Configs(st, sk) ==
    {ValidConfig(st, sk)}
    \cup {[ValidConfig(st, sk) EXCEPT ![Roles[r]] = b] : r \in 1..Len(Roles), b \in BadTypes}

\* A LanceDB table of the configured name may already exist (empty) when the
\* pipeline is first run; a Chroma collection is created on first use.
Init ==
    /\ impl \in Impls /\ sinkKind \in SinkKinds /\ srcType \in SourceTypes(impl)
    /\ config \in Configs(srcType, sinkKind)
    /\ call = NoCall
    /\ batch = <<>> /\ schemas = <<>> /\ records = <<>> /\ pg = NoPg /\ backend = "json" /\ store = <<>>
    /\ content = [i \in Items |-> 1]
    /\ disk = EmptyLedger
    /\ tableExists \in (IF sinkKind = "lancedb" THEN BOOLEAN ELSE {FALSE})
    /\ tableSchema = (IF tableExists THEN RecursiveSchema ELSE <<>>)
    /\ table = EmptyBag
    /\ pc = "Idle" /\ state = EmptyLedger
    /\ docs = <<>> /\ pending = {} /\ all_chunks = <<>> /\ processed_docs = <<>>
    /\ runs = 0 /\ faults = 0
    /\ state0 = EmptyLedger /\ disk0 = EmptyLedger /\ table0 = EmptyBag
    /\ loadContent = [i \in Items |-> 0] /\ changed = {} /\ loadFailed = {}
    /\ chunkRaised = {} /\ injected = {} /\ sinkResult = "none" /\ failedAt = "none"
    /\ prev = NoPrev

\* ------------------------------------------------------------- orchestrator
\* build_component(config["source"], SOURCE_REGISTRY) after the state manager
\* was put into the source's config: WebSource.__init__ takes only url, so
\* the keyword state_manager makes the constructor raise TypeError.
BuildFails(im, st) == im = "vectorflow" /\ st = "web"

\* the four build_component calls in the order the orchestrator makes them;
\* the first exception ends the building
RECURSIVE build_components(_, _, _)
build_components(im, conf, roles) ==
    IF roles = <<>> THEN "none"
    ELSE LET role == Head(roles)
             built == build_component(conf[role], Registry(im, role))
         IN  IF built = "ValueError" THEN "ValueError"
             ELSE IF role = "source" /\ BuildFails(im, built) THEN "TypeError"
             ELSE build_components(im, conf, Tail(roles))

\* the except clauses of run_pipeline: whether a failure at a step ends inside
\* run_pipeline.  yamlpipe wraps everything in try/except Exception;
\* vectorflow catches only the ValueError of the build.
run_pipeline_catches(im, at, err) ==
    IF im = "yamlpipe" THEN TRUE ELSE at = "build" /\ err = "ValueError"

\* A run starts: the state manager loads the ledger and the components are
\* built.  vectorflow: run_pipeline.  yamlpipe: _process_documents, called
\* with built components and a StateManager over a backend.
StartRun ==
    /\ pc \in {"Idle", "Done", "Failed"}
    /\ runs < MaxRuns
    /\ runs' = runs + 1
    /\ prev' = [pc |-> pc, failedAt |-> failedAt, loadContent |-> loadContent,
                changed |-> changed, loadFailed |-> loadFailed, injected |-> injected]
    /\ state' = load_state
    /\ state0' = load_state /\ disk0' = disk /\ table0' = table
    /\ pc' = (IF build_components(impl, config, Roles) # "none" THEN "Failed" ELSE "Loading")
    /\ failedAt' = (IF build_components(impl, config, Roles) # "none" THEN "build" ELSE "none")
    /\ docs' = <<>> /\ pending' = {} /\ all_chunks' = <<>> /\ processed_docs' = <<>>
    /\ loadContent' = [i \in Items |-> 0] /\ changed' = {} /\ loadFailed' = {}
    /\ chunkRaised' = {} /\ injected' = {} /\ sinkResult' = "none"
    /\ UNCHANGED <<cfg, call, unit, world, faults>>

\* variant of AfterLoad: the run goes on to the sink with no document
AfterLoadNoReturn(documents) == IF documents = <<>> THEN "Upserting" ELSE "Chunking"

\* "if not documents_to_process: return"
AfterLoad(documents) == IF documents = <<>> THEN "Done" ELSE "Chunking"

\* variant of Loaded: one failing item makes load_data give up and return nothing
LoadedAbort(ch, bad, flt) ==
    /\ docs' = (IF bad = {} THEN MakeDocs(Restrict(ItemOrder, ch)) ELSE <<>>)
    /\ changed' = ch /\ loadFailed' = bad
    /\ injected' = injected \cup flt
    /\ faults' = faults + Cardinality(flt)
    /\ pending' = 1..Len(docs')
    /\ pc' = AfterLoad(docs')
    /\ failedAt' = failedAt

\* the loop of load_data over the changed items: an item whose fetch or parse
\* raises is logged and left out, the others become documents
Loaded(ch, bad, flt) ==
    /\ docs' = MakeDocs(Restrict(ItemOrder, ch \ bad))
    /\ changed' = ch /\ loadFailed' = bad
    /\ injected' = injected \cup flt
    /\ faults' = faults + Cardinality(flt)
    /\ pending' = 1..Len(docs')
    /\ pc' = AfterLoad(docs')
    /\ failedAt' = failedAt

\* source.load_data()
LoadData ==
    /\ pc = "Loading"
    /\ loadContent' = content
    /\ \/ /\ srcType = "local_files"
          /\ \E bad \in SUBSET new_or_changed_files :
                /\ bad # {} => faults < MaxFaults
                /\ Loaded(new_or_changed_files, bad, IF bad = {} THEN {} ELSE {"parse"})
       \/ /\ srcType = "web"
          /\ \E bad \in SUBSET {WebUrl} :
                /\ bad # {} => faults < MaxFaults
                /\ Loaded({WebUrl}, bad, IF bad = {} THEN {} ELSE {"fetch"})
       \/ /\ srcType = "s3"
          /\ IF LedgerKey(impl) = "processed_files"
             THEN \E bad \in SUBSET new_or_changed_objects :
                    /\ bad # {} => faults < MaxFaults
                    /\ Loaded(new_or_changed_objects, bad,
                              IF bad = {} THEN {} ELSE {"fetch"})
             ELSE \* KeyError: the state dictionary has no "processed_files"
                  /\ pc' = "Failed" /\ failedAt' = "load"
                  /\ UNCHANGED <<docs, changed, loadFailed, injected, faults, pending>>
    /\ UNCHANGED <<cfg, call, unit, world, state, all_chunks, processed_docs, runs,
                   state0, disk0, table0, chunkRaised, sinkResult, prev>>

Min(S) == CHOOSE x \in S : \A y \in S : x <= y

\* variant of extend: the chunks of a document are taken over last first
extend_reversed(list, items) ==
    list \o [k \in 1..Len(items) |-> items[Len(items) + 1 - k]]

\* all_chunks.extend(result_chunks)
extend(list, items) == list \o items

\* variant of AfterChunking: the run moves on as soon as one document is chunked
AfterChunkingEager(im, pend, chunks) ==
    IF pend = {} /\ im = "yamlpipe" /\ chunks = <<>> THEN "Done" ELSE "Embedding"

\* where the run goes when a chunking result was taken over: on to the next
\* document, out ("if not all_chunks: return"), or on to the embedder
AfterChunking(im, pend, chunks) ==
    IF pend # {} THEN "Chunking"
    ELSE IF im = "yamlpipe" /\ chunks = <<>> THEN "Done"
    ELSE "Embedding"

\* variant of mark_processed: every document whose task finished is marked
mark_processed_all(done, doc, result_chunks) == Append(done, doc)

\* "if result_chunks: ... processed_docs.append(futures[future])"
mark_processed(done, doc, result_chunks) ==
    IF result_chunks # <<>> THEN Append(done, doc) ELSE done

\* _process_document_chunk (yamlpipe) / chunker.chunk (vectorflow) for one
\* document.  yamlpipe chunks in a process pool and takes the results in
\* completion order; vectorflow chunks the documents in list order.
ChunkDone(k) ==
    /\ pc = "Chunking"
    /\ k \in pending
    /\ impl = "vectorflow" => k = Min(pending)
    /\ \E outcome \in {"ok", "empty", "raise"} :
        LET doc == docs[k]
            result_chunks == IF outcome = "ok" THEN chunk(doc) ELSE <<>>
            escapes == outcome = "raise" /\ impl = "vectorflow"
        IN  /\ outcome # "ok" => faults < MaxFaults
            /\ faults' = (IF outcome = "ok" THEN faults ELSE faults + 1)
            /\ injected' = (IF outcome = "ok" THEN injected ELSE injected \cup {"chunk"})
            /\ chunkRaised' = (IF outcome = "raise" THEN chunkRaised \cup {doc.source}
                               ELSE chunkRaised)
            /\ pending' = pending \ {k}
            /\ all_chunks' = (IF escapes THEN all_chunks ELSE extend(all_chunks, result_chunks))
            /\ processed_docs' = (IF impl = "yamlpipe"
                                  THEN mark_processed(processed_docs, doc, result_chunks)
                                  ELSE processed_docs)
            /\ pc' = (IF escapes THEN "Failed"
                      ELSE AfterChunking(impl, pending', all_chunks'))
            /\ failedAt' = (IF escapes THEN "chunk" ELSE failedAt)
    /\ UNCHANGED <<cfg, call, unit, world, state, docs, runs, state0, disk0, table0, loadContent,
                   changed, loadFailed, sinkResult, prev>>

\* variant of attach: chunk i gets the vector of the chunk after it
attach_rotated(chunks, embeddings) ==
    [k \in 1..Len(chunks) |->
        [chunks[k] EXCEPT !.embedding = embeddings[(k % Len(chunks)) + 1]]]

\* "for i, chunk in enumerate(all_chunks): chunk.metadata["embedding"] = embeddings[i]"
attach(chunks, embeddings) ==
    [k \in 1..Len(chunks) |-> [chunks[k] EXCEPT !.embedding = embeddings[k]]]

\* embedder.embed(chunk_contents) and the loop that attaches embeddings[i]
Embed ==
    /\ pc = "Embedding"
    /\ \E ok \in BOOLEAN :
        LET chunk_contents == [k \in 1..Len(all_chunks) |-> ChunkText(all_chunks[k])]
            embeddings == embed(chunk_contents)
        IN  /\ ~ok => faults < MaxFaults
            /\ faults' = (IF ok THEN faults ELSE faults + 1)
            /\ injected' = (IF ok THEN injected ELSE injected \cup {"embed"})
            /\ all_chunks' = (IF ok THEN attach(all_chunks, embeddings) ELSE all_chunks)
            /\ pc' = (IF ok THEN "Upserting" ELSE "Failed")
            /\ failedAt' = (IF ok THEN failedAt ELSE "embed")
    /\ UNCHANGED <<cfg, call, unit, world, state, docs, pending, processed_docs, runs, state0, disk0,
                   table0, loadContent, changed, loadFailed, chunkRaised, sinkResult, prev>>

RECURSIVE UpdateAll(_, _, _)
UpdateAll(ledger, documents, st) ==
    IF documents = <<>> THEN ledger
    ELSE UpdateAll(update_state(ledger, Head(documents).source, st), Tail(documents), st)

\* variant of save_state: only the entries that differ from the stored ones
\* are written
save_state_changed_only(ledger, ok) ==
    IF ok THEN [i \in Items |-> IF ledger[i] # disk[i] THEN ledger[i] ELSE NoHash]
    ELSE disk

\* JSON state file written by save_state; an IOError is logged and swallowed
save_state(ledger, ok) == IF ok THEN ledger ELSE disk

\* variant of Sink: the fingerprints are recorded and saved before the sink is called
SinkAfterCommit ==
    /\ pc = "Upserting"
    /\ \E env \in SinkEnvs :
        LET out == sink(impl, sinkKind, all_chunks, env)
        IN  /\ faults + Cardinality(out.hit) <= MaxFaults
            /\ faults' = faults + Cardinality(out.hit)
            /\ injected' = injected \cup out.hit
            /\ tableExists' = out.exists
            /\ tableSchema' = out.schema
            /\ table' = out.rows
            /\ sinkResult' = out.result
            /\ pc' = (IF out.result = "raise" THEN "Failed" ELSE "Committing")
            /\ failedAt' = (IF out.result = "raise" THEN "sink" ELSE failedAt)
    /\ state' = UpdateAll(state, docs, srcType)
    /\ disk' = state'
    /\ UNCHANGED <<cfg, call, unit, content, docs, pending, all_chunks, processed_docs,
                   runs, state0, disk0, table0, loadContent, changed, loadFailed,
                   chunkRaised, prev>>

\* sink.sink(all_chunks)
Sink ==
    /\ pc = "Upserting"
    /\ \E env \in SinkEnvs :
        LET out == sink(impl, sinkKind, all_chunks, env)
        IN  /\ faults + Cardinality(out.hit) <= MaxFaults
            /\ faults' = faults + Cardinality(out.hit)
            /\ injected' = injected \cup out.hit
            /\ tableExists' = out.exists
            /\ tableSchema' = out.schema
            /\ table' = out.rows
            /\ sinkResult' = out.result
            /\ pc' = (IF out.result = "raise" THEN "Failed" ELSE "Committing")
            /\ failedAt' = (IF out.result = "raise" THEN "sink" ELSE failedAt)
    /\ UNCHANGED <<cfg, call, unit, content, disk, state, docs, pending, all_chunks, processed_docs,
                   runs, state0, disk0, table0, loadContent, changed, loadFailed,
                   chunkRaised, prev>>

\* "Updating state for processed files..."
\* vectorflow: update_state for every loaded document, then save_state.
\* yamlpipe: source.update_state(processed_docs); no source class defines
\* update_state, so the call raises AttributeError.
Commit ==
    /\ pc = "Committing"
    /\ \/ /\ impl = "vectorflow"
          /\ state' = UpdateAll(state, docs, srcType)
          /\ \E ok \in BOOLEAN :
                /\ ~ok => faults < MaxFaults
                /\ faults' = (IF ok THEN faults ELSE faults + 1)
                /\ injected' = (IF ok THEN injected ELSE injected \cup {"save"})
                /\ disk' = save_state(state', ok)
          /\ pc' = "Done"
          /\ failedAt' = failedAt
       \/ /\ impl = "yamlpipe"
          /\ pc' = "Failed"
          /\ failedAt' = "commit"
          /\ UNCHANGED <<state, disk, faults, injected>>
    /\ UNCHANGED <<cfg, call, unit, content, tableExists, tableSchema, table, docs, pending,
                   all_chunks, processed_docs, runs, state0, disk0, table0, loadContent,
                   changed, loadFailed, chunkRaised, sinkResult, prev>>

\* The outside world edits an item (a file is rewritten, a page changes).  A run
\* reads the content when it loads and again when it commits, so an edit made
\* anywhere between the two is represented by the edit at "Committing".
Modify(i) ==
    /\ content[i] < MaxVer
    /\ pc \in {"Idle", "Done", "Failed", "Committing"}
    /\ srcType = "web" => i = WebUrl
    /\ content' = [content EXCEPT ![i] = @ + 1]
    /\ UNCHANGED <<cfg, call, unit, disk, tableExists, tableSchema, table, run, runs, faults, hist>>

Next ==
    \/ StartRun
    \/ LoadData
    \/ \E k \in 1..Cardinality(Items) : ChunkDone(k)
    \/ Embed
    \/ Sink
    \/ Commit
    \/ \E i \in Items : Modify(i)

Spec == Init /\ [][Next]_vars

\* --------------------------------------------------------- the ledger alone
\* The operations of a state manager called one by one, as the sources and the
\* orchestrator call them.  srcType tells whether the item ids are paths of
\* readable files ("local_files") or something get_file_hash cannot open
\* ("web").  The variables of the orchestrator stay as they are initially.
LedgerFrame ==
    UNCHANGED <<impl, sinkKind, srcType, config, tableExists, tableSchema, table,
                docs, pending, all_chunks, processed_docs, runs, faults, hist, unit>>

LedgerInit ==
    /\ impl \in Generations /\ sinkKind = "lancedb" /\ srcType \in {"local_files", "web"}
    /\ config = ValidConfig(srcType, sinkKind)
    /\ call = NoCall
    /\ batch = <<>> /\ schemas = <<>> /\ records = <<>> /\ pg = NoPg /\ backend = "json" /\ store = <<>>
    /\ content = [i \in Items |-> 1]
    /\ disk = EmptyLedger
    /\ tableExists = FALSE /\ tableSchema = <<>> /\ table = EmptyBag
    /\ pc = "Idle" /\ state = EmptyLedger
    /\ docs = <<>> /\ pending = {} /\ all_chunks = <<>> /\ processed_docs = <<>>
    /\ runs = 0 /\ faults = 0
    /\ state0 = EmptyLedger /\ disk0 = EmptyLedger /\ table0 = EmptyBag
    /\ loadContent = [i \in Items |-> 0] /\ changed = {} /\ loadFailed = {}
    /\ chunkRaised = {} /\ injected = {} /\ sinkResult = "none" /\ failedAt = "none"
    /\ prev = NoPrev

BoolStr(b) == IF b THEN "true" ELSE "false"

\* the flat package's get_file_hash has no except clause
HashRaises(im, st) == im = "vectorflow_flat" /\ get_file_hash("A", st) = NoHash

\* what reading the backing store gives: the ledger, the fresh ledger of the
\* except clause, or the exception where there is no except clause
LoadResult(im, outcome) ==
    IF outcome = "ok" THEN "ok"
    ELSE IF im = "vectorflow_flat" THEN "raise"
    ELSE "fallback"

\* StateManager(...): the constructor loads the ledger
StateManager_init ==
    /\ pc = "Idle"
    /\ \E outcome \in {"ok", "JSONDecodeError", "IOError"} :
        LET res == LoadResult(impl, outcome)
        IN  /\ state' = (IF res = "ok" THEN load_state ELSE EmptyLedger)
            /\ pc' = (IF res = "raise" THEN "Failed" ELSE "Loading")
            /\ call' = [NoCall EXCEPT !.op = "load", !.result = res,
                                      !.fallback = (res = "fallback")]
    /\ UNCHANGED <<content, disk>>
    /\ LedgerFrame

\* state_manager.has_changed(item_id[, new_hash])
HasChangedCall(i, new_hash) ==
    /\ pc = "Loading"
    /\ new_hash # NoHash => impl = "yamlpipe"
    /\ LET raises == new_hash = NoHash /\ HashRaises(impl, srcType)
           res == IF impl = "yamlpipe" THEN has_changed_hash(i, new_hash, srcType)
                  ELSE has_changed(i, srcType)
       IN  call' = [op |-> "has_changed", item |-> i, given |-> new_hash,
                    fp |-> IF new_hash # NoHash THEN new_hash ELSE get_file_hash(i, srcType),
                    result |-> IF raises THEN "raise" ELSE BoolStr(res),
                    again |-> FALSE, fallback |-> call.fallback]
    /\ UNCHANGED <<content, disk, pc, state>>
    /\ LedgerFrame

\* state_manager.update_file_state(item_id[, new_hash]) / update_state(path)
RecordCall(i, new_hash) ==
    /\ pc = "Loading"
    /\ new_hash # NoHash => impl = "yamlpipe"
    /\ LET raises == new_hash = NoHash /\ HashRaises(impl, srcType)
           fp == IF new_hash # NoHash THEN new_hash ELSE get_file_hash(i, srcType)
       IN  /\ state' = (IF raises THEN state
                        ELSE IF impl = "yamlpipe"
                        THEN update_file_state(state, i, new_hash, srcType)
                        ELSE update_state(state, i, srcType))
           /\ call' = [op |-> "record", item |-> i, given |-> new_hash, fp |-> fp,
                       result |-> IF raises THEN "raise"
                                  ELSE IF fp = NoHash THEN "skipped" ELSE "ok",
                       again |-> (fp # NoHash /\ state[i] = fp),
                       fallback |-> call.fallback]
    /\ UNCHANGED <<content, disk, pc>>
    /\ LedgerFrame

\* state_manager.save() / save_state(): the flat package lets the IOError out
SaveCall ==
    /\ pc = "Loading"
    /\ \E ok \in BOOLEAN :
        /\ disk' = save_state(state, ok)
        /\ call' = [NoCall EXCEPT !.op = "save",
                                  !.result = IF ok THEN "ok"
                                             ELSE IF impl = "vectorflow_flat" THEN "raise"
                                             ELSE "swallowed",
                                  !.fallback = call.fallback]
    /\ UNCHANGED <<content, pc, state>>
    /\ LedgerFrame

\* the process that holds the state manager ends
Exit ==
    /\ pc \in {"Loading", "Failed"}
    /\ pc' = "Idle"
    /\ UNCHANGED <<content, disk, state, call>>
    /\ LedgerFrame

LedgerNext ==
    \/ StateManager_init
    \/ \E i \in Items, new_hash \in 0..MaxVer : HasChangedCall(i, new_hash)
    \/ \E i \in Items, new_hash \in 0..MaxVer : RecordCall(i, new_hash)
    \/ SaveCall
    \/ Exit
    \/ \E i \in Items : Modify(i)

LedgerSpec == LedgerInit /\ [][LedgerNext]_vars

\* ------------------------------------------------- schema synthesis alone
\* create_dynamic_pydantic_model and the record loop of LanceDBSink.sink,
\* called on a batch of chunks whose metadata is not limited to what the
\* registered sources and chunkers produce: a row of the PostgreSQL source
\* brings one metadata key per column, of whatever name and type.  The
\* embedder attaches the embedding last.
SchemaFrame == UNCHANGED <<cfg, world, run, runs, faults, hist, call, pg, kv>>

ValueTypes == {"str", "int", "dict"}
GenericItems == {<<"source", t, 0>> : t \in ValueTypes} \cup {<<"vector", "str", 0>>}
GenericKeys == {x[1] : x \in GenericItems}
EmbeddingItems ==
    {<<"embedding", "list", 0>>} \cup {<<"embedding", "ndarray", d>> : d \in 1..MaxDim}

SeqsUpTo(S, n) == UNION {[1..m -> S] : m \in 0..n}
DistinctKeys(md) == \A j, k \in 1..Len(md) : j # k => md[j][1] # md[k][1]

MetadataDicts ==
    {g \o e : g \in {x \in SeqsUpTo(GenericItems, Cardinality(GenericKeys))
                        : DistinctKeys(x)},
              e \in {<<>>} \cup {<<x>> : x \in EmbeddingItems}}

SchemaInit ==
    /\ impl = "yamlpipe" /\ sinkKind = "lancedb" /\ srcType = "local_files"
    /\ config = ValidConfig(srcType, sinkKind)
    /\ call = NoCall
    /\ batch \in SeqsUpTo(MetadataDicts, MaxChunks)
    /\ schemas = <<>> /\ records = <<>> /\ pg = NoPg /\ backend = "json" /\ store = <<>>
    /\ content = [i \in Items |-> 1]
    /\ disk = EmptyLedger
    /\ tableExists = FALSE /\ tableSchema = <<>> /\ table = EmptyBag
    /\ pc = "Idle" /\ state = EmptyLedger
    /\ docs = <<>> /\ pending = {} /\ all_chunks = <<>> /\ processed_docs = <<>>
    /\ runs = 0 /\ faults = 0
    /\ state0 = EmptyLedger /\ disk0 = EmptyLedger /\ table0 = EmptyBag
    /\ loadContent = [i \in Items |-> 0] /\ changed = {} /\ loadFailed = {}
    /\ chunkRaised = {} /\ injected = {} /\ sinkResult = "none" /\ failedAt = "none"
    /\ prev = NoPrev

\* DynamicDocumentModel = create_dynamic_pydantic_model(documents); schemas
\* holds the results of the calls made so far
Synthesize ==
    /\ Len(schemas) < 2
    /\ schemas' = Append(schemas, create_dynamic_pydantic_model(batch))
    /\ UNCHANGED <<batch, records>>
    /\ SchemaFrame

\* the record loop of the sink, which it reaches once the model was created
MakeRecords ==
    /\ schemas # <<>> /\ schemas[1].err = "none"
    /\ records = <<>>
    /\ records' = [k \in 1..Len(batch) |-> record(batch[k])]
    /\ UNCHANGED <<batch, schemas>>
    /\ SchemaFrame

SchemaNext ==
    \/ Synthesize
    \/ MakeRecords

SchemaSpec == SchemaInit /\ [][SchemaNext]_vars

\* ------------------------------------------ a run over the PostgreSQL source
\* PostgreSQLSource is in no registry, so run_pipeline cannot build it; it is
\* constructed directly and handed to _process_documents with a StateManager
\* over a backend.  The rows of the table are Items; content[i] is the
\* content of row i and pg.updated_at[i] its timestamp column.
PgInit ==
    /\ impl = "yamlpipe" /\ sinkKind \in SinkKinds /\ srcType = "postgres"
    /\ config = ValidConfig(srcType, sinkKind)
    /\ call = NoCall
    /\ batch = <<>> /\ schemas = <<>> /\ records = <<>> /\ pg = NoPg /\ backend = "json" /\ store = <<>>
    /\ content = [i \in Items |-> 1]
    /\ disk = EmptyLedger
    /\ tableExists \in (IF sinkKind = "lancedb" THEN BOOLEAN ELSE {FALSE})
    /\ tableSchema = (IF tableExists THEN RecursiveSchema ELSE <<>>)
    /\ table = EmptyBag
    /\ pc = "Idle" /\ state = EmptyLedger
    /\ docs = <<>> /\ pending = {} /\ all_chunks = <<>> /\ processed_docs = <<>>
    /\ runs = 0 /\ faults = 0
    /\ state0 = EmptyLedger /\ disk0 = EmptyLedger /\ table0 = EmptyBag
    /\ loadContent = [i \in Items |-> 0] /\ changed = {} /\ loadFailed = {}
    /\ chunkRaised = {} /\ injected = {} /\ sinkResult = "none" /\ failedAt = "none"
    /\ prev = NoPrev

\* StateManager(backend) loads the ledger, last_run_timestamp included, and
\* _process_documents starts
PgStartRun ==
    /\ pc \in {"Idle", "Done", "Failed"}
    /\ runs < MaxRuns
    /\ runs' = runs + 1
    /\ prev' = [pc |-> pc, failedAt |-> failedAt, loadContent |-> loadContent,
                changed |-> changed, loadFailed |-> loadFailed, injected |-> injected]
    /\ state' = load_state
    /\ state0' = load_state /\ disk0' = disk /\ table0' = table
    /\ pg' = [pg EXCEPT !.last_run_timestamp = pg.stored, !.last_run_ts = 0, !.rows = {}]
    /\ pc' = "Loading" /\ failedAt' = "none"
    /\ docs' = <<>> /\ pending' = {} /\ all_chunks' = <<>> /\ processed_docs' = <<>>
    /\ loadContent' = [i \in Items |-> 0] /\ changed' = {} /\ loadFailed' = {}
    /\ chunkRaised' = {} /\ injected' = {} /\ sinkResult' = "none"
    /\ UNCHANGED <<cfg, call, synth, kv, world, faults>>

\* the rows self.query selects, and the rows final_query would select
query == Items
final_query(last_run_ts) ==
    IF last_run_ts # 0 THEN {i \in query : pg.updated_at[i] > last_run_ts} ELSE query

\* PostgreSQLSource.load_data: final_query is built from the recorded
\* timestamp, and then cur.execute(self.query) runs the configured query.
\* Every row becomes a document whose source is the connection URL;
\* psycopg2.Error gives [].
PostgreSQLSource_load_data ==
    /\ pc = "Loading"
    /\ loadContent' = content
    /\ \E ok \in BOOLEAN :
        LET last_run_ts == pg.last_run_timestamp
            rows == IF ok THEN query ELSE {}
            loaded == Restrict(ItemOrder, rows)
        IN  /\ ~ok => faults < MaxFaults
            /\ faults' = (IF ok THEN faults ELSE faults + 1)
            /\ injected' = (IF ok THEN injected ELSE injected \cup {"fetch"})
            /\ docs' = [k \in 1..Len(loaded) |->
                           [source |-> PgUrl, ver |-> content[loaded[k]]]]
            /\ pg' = [pg EXCEPT !.last_run_ts = last_run_ts, !.rows = rows]
            /\ changed' = rows /\ loadFailed' = {}
            /\ pending' = 1..Len(docs')
            /\ pc' = AfterLoad(docs')
            /\ failedAt' = failedAt
    /\ UNCHANGED <<cfg, call, synth, kv, world, state, all_chunks, processed_docs, runs,
                   state0, disk0, table0, chunkRaised, sinkResult, prev>>

\* StateManager.update_run_timestamp(), which no source and no orchestrator
\* calls: whoever holds the state manager calls it between two runs
update_run_timestamp ==
    /\ pc \in {"Idle", "Done", "Failed"}
    /\ pg.clock < MaxClock
    /\ pg' = [pg EXCEPT !.clock = @ + 1, !.last_run_timestamp = pg.clock + 1]
    /\ UNCHANGED <<cfg, call, synth, kv, world, run, runs, faults, hist>>

\* StateManager.save(): the backend writes the whole state
StateManager_save ==
    /\ pc \in {"Idle", "Done", "Failed"}
    /\ pg.stored # pg.last_run_timestamp \/ disk # state
    /\ pg' = [pg EXCEPT !.stored = pg.last_run_timestamp]
    /\ disk' = state
    /\ UNCHANGED <<cfg, call, synth, kv, content, tableExists, tableSchema, table, run, runs,
                   faults, hist>>

\* a row is updated: its content changes and its timestamp column is set to
\* the time of the update
PgModify(i) ==
    /\ content[i] < MaxVer
    /\ pg.clock < MaxClock
    /\ pc \in {"Idle", "Done", "Failed", "Committing"}
    /\ content' = [content EXCEPT ![i] = @ + 1]
    /\ pg' = [pg EXCEPT !.clock = @ + 1, !.updated_at[i] = pg.clock + 1]
    /\ UNCHANGED <<cfg, call, synth, kv, disk, tableExists, tableSchema, table, run, runs,
                   faults, hist>>

PgNext ==
    \/ PgStartRun
    \/ PostgreSQLSource_load_data
    \/ \E k \in 1..Cardinality(Items) : ChunkDone(k)
    \/ Embed
    \/ Sink
    \/ Commit
    \/ update_run_timestamp
    \/ StateManager_save
    \/ \E i \in Items : PgModify(i)

PostgresSpec == PgInit /\ [][PgNext]_vars

\* ------------------------------------------ the state manager's back ends
\* yamlpipe's StateManager over a JSONStateManager (a file) or a
\* RedisStateManager (a key): store is empty while the file or the key does
\* not exist and holds the JSON text otherwise.  disk and pg.stored remember
\* the state dictionary handed to the last save that succeeded.
Backends == {"json", "redis"}

StoreFrame ==
    UNCHANGED <<cfg, content, tableExists, tableSchema, table, docs, pending, all_chunks,
                processed_docs, runs, faults, hist, synth, backend>>

StoreInit ==
    /\ impl = "yamlpipe" /\ sinkKind = "lancedb" /\ srcType = "web"
    /\ config = ValidConfig(srcType, sinkKind)
    /\ call = NoCall
    /\ batch = <<>> /\ schemas = <<>> /\ records = <<>> /\ pg = NoPg
    /\ backend \in Backends /\ store = <<>>
    /\ content = [i \in Items |-> 1]
    /\ disk = EmptyLedger
    /\ tableExists = FALSE /\ tableSchema = <<>> /\ table = EmptyBag
    /\ pc = "Idle" /\ state = EmptyLedger
    /\ docs = <<>> /\ pending = {} /\ all_chunks = <<>> /\ processed_docs = <<>>
    /\ runs = 0 /\ faults = 0
    /\ state0 = EmptyLedger /\ disk0 = EmptyLedger /\ table0 = EmptyBag
    /\ loadContent = [i \in Items |-> 0] /\ changed = {} /\ loadFailed = {}
    /\ chunkRaised = {} /\ injected = {} /\ sinkResult = "none" /\ failedAt = "none"
    /\ prev = NoPrev

\* the state dictionary: {"processed_items": {...}, "last_run_timestamp": ...}
NewState == [processed_items |-> EmptyLedger, last_run_timestamp |-> 0]

\* json.dumps: an object with one member per key of processed_items, each a
\* JSON string, and last_run_timestamp as a JSON string or null; wellformed
\* says that the whole text is there
json_dumps(d) ==
    [wellformed |-> TRUE,
     processed_items |->
        {<<i, <<"string", d.processed_items[i]>>>> :
            i \in {j \in Items : d.processed_items[j] # NoHash}},
     last_run_timestamp |->
        IF d.last_run_timestamp = 0 THEN <<"null", 0>>
        ELSE <<"string", d.last_run_timestamp>>]

\* variant of json_loads: the timestamp member is not read back
json_loads_items_only(text) ==
    [processed_items |->
        [i \in Items |->
            IF \E m \in text.processed_items : m[1] = i
            THEN (CHOOSE m \in text.processed_items : m[1] = i)[2][2]
            ELSE NoHash],
     last_run_timestamp |-> 0]

\* json.load / json.loads
json_loads(text) ==
    [processed_items |->
        [i \in Items |->
            IF \E m \in text.processed_items : m[1] = i
            THEN (CHOOSE m \in text.processed_items : m[1] = i)[2][2]
            ELSE NoHash],
     last_run_timestamp |->
        IF text.last_run_timestamp[1] = "null" THEN 0 ELSE text.last_run_timestamp[2]]

\* open(path, "w") empties the file before json.dump writes it: a write that
\* fails part way leaves a text json.load cannot parse
Truncated == [json_dumps(NewState) EXCEPT !.wellformed = FALSE]

\* what the back end's exception is called
LoadError(b) == IF b = "json" THEN "JSONDecodeError" ELSE "RedisError"

\* StateManager(backend): self.state = self.backend.load_state().  No file or
\* no value under the key gives a new state, and so does an error.
Backend_load_state ==
    /\ pc = "Idle"
    /\ \E outcome \in IF store # <<>> /\ ~store[1].wellformed
                      THEN {LoadError(backend)}
                      ELSE {"ok", LoadError(backend)} :
        LET loaded == IF store = <<>> \/ outcome # "ok" THEN NewState
                      ELSE json_loads(store[1])
        IN  /\ state' = loaded.processed_items
            /\ pg' = [pg EXCEPT !.last_run_timestamp = loaded.last_run_timestamp]
            /\ call' = [NoCall EXCEPT !.op = "load",
                                      !.result = IF outcome # "ok" THEN "fallback"
                                                 ELSE IF store = <<>> THEN "new"
                                                 ELSE "ok",
                                      !.fallback = (outcome # "ok")]
    /\ pc' = "Loading"
    /\ UNCHANGED <<disk, store>>
    /\ StoreFrame

\* state_manager.update_file_state(item_id, new_hash)
StoreRecord(i, new_hash) ==
    /\ pc = "Loading"
    /\ state' = update_file_state(state, i, new_hash, srcType)
    /\ call' = [NoCall EXCEPT !.op = "record", !.item = i, !.given = new_hash,
                              !.fp = new_hash, !.result = "ok"]
    /\ UNCHANGED <<pc, disk, pg, store>>
    /\ StoreFrame

\* state_manager.update_run_timestamp()
StoreTimestamp ==
    /\ pc = "Loading"
    /\ pg.clock < MaxClock
    /\ pg' = [pg EXCEPT !.clock = @ + 1, !.last_run_timestamp = pg.clock + 1]
    /\ call' = [NoCall EXCEPT !.op = "timestamp", !.result = "ok"]
    /\ UNCHANGED <<pc, state, disk, store>>
    /\ StoreFrame

\* state_manager.save(): backend.save_state(self.state) writes the JSON text;
\* an IOError or RedisError is logged and swallowed, and the file it leaves
\* is the old one (open failed) or a truncated one (the write failed)
Backend_save_state ==
    /\ pc = "Loading"
    /\ \E ok \in BOOLEAN :
        LET d == [processed_items |-> state,
                  last_run_timestamp |-> pg.last_run_timestamp]
        IN  /\ store' \in (IF ok THEN {<<json_dumps(d)>>}
                          ELSE IF backend = "json" THEN {store, <<Truncated>>}
                          ELSE {store})
            /\ disk' = (IF ok THEN state ELSE disk)
            /\ pg' = (IF ok THEN [pg EXCEPT !.stored = pg.last_run_timestamp] ELSE pg)
            /\ call' = [NoCall EXCEPT !.op = "save",
                                      !.result = IF ok THEN "ok" ELSE "swallowed"]
    /\ UNCHANGED <<pc, state>>
    /\ StoreFrame

StoreNext ==
    \/ Backend_load_state
    \/ \E i \in Items, new_hash \in 1..MaxVer : StoreRecord(i, new_hash)
    \/ StoreTimestamp
    \/ Backend_save_state
    \/ Exit

StoreSpec == StoreInit /\ [][StoreNext]_vars

\* ---------------------------------------------------------------- properties
RowsOf(rows, o) == [r \in {x \in DOMAIN rows : x.source = o} |-> rows[r]]
BatchOf(o) == SelectSeq(all_chunks, LAMBDA c : c.source = o)
Embedded(cs) == [k \in 1..Len(cs) |-> [cs[k] EXCEPT !.embedding = ChunkText(cs[k])]]
Returned == {"ok", "early", "swallowed"}
RunEnded == pc \in {"Done", "Failed"}
HasLoaded == loadContent # [i \in Items |-> 0] /\ failedAt # "load"
DocsAtLoad(keep) ==
    LET seq == Restrict(ItemOrder, keep)
    IN  [k \in 1..Len(seq) |-> [source |-> seq[k], ver |-> loadContent[seq[k]]]]

\* C1: in every reachable state, an item whose ledger fingerprint was updated
\* in this run has chunks from this run and all of them are in the sink,
\* whatever the outcome of the sink call.
C1_LedgerOnlyAfterSink ==
    \A i \in Items :
        state[i] # state0[i] =>
            /\ BatchOf(i) # <<>>
            /\ \A k \in 1..Len(all_chunks) :
                  all_chunks[k].source = i => BagIn(all_chunks[k], table)

\* C2: when a step before Committing State raises, the in-memory and the
\* persisted ledger equal the ledger before the run, and the next run over the
\* unchanged source computes the same changed-item set.
C2_FailedRunLeavesLedger ==
    /\ (pc = "Failed" /\ failedAt \in {"build", "load", "chunk", "embed", "sink"})
          => (state = state0 /\ disk = disk0)
    /\ (/\ prev.pc = "Failed"
        /\ prev.failedAt \in {"load", "chunk", "embed", "sink"}
        /\ HasLoaded
        /\ loadContent = prev.loadContent)
          => changed = prev.changed

C2_Witness ==
    /\ prev.pc = "Failed" /\ prev.failedAt = "sink"
    /\ pc = "Chunking" /\ loadContent = prev.loadContent
    /\ changed = prev.changed /\ changed # {}

\* C3: after the sink call returns normally, for every origin of the batch the
\* sink holds exactly the chunks of the batch for that origin.
C3_UpsertExact ==
    (pc = "Committing" /\ sinkResult \in Returned) =>
        \A o \in BatchSources(all_chunks) : RowsOf(table, o) = SeqToBag(BatchOf(o))

\* C4: a run without any failure that loaded items ends in Done, leaves for
\* each loaded item exactly the chunks of the loaded version in the sink, and
\* records the loaded fingerprint in the ledger (in memory and persisted).
C4_ReingestReplaces ==
    (RunEnded /\ docs # <<>> /\ injected = {} /\ loadContent = content) =>
        /\ pc = "Done"
        /\ \A k \in 1..Len(docs) :
              /\ RowsOf(table, docs[k].source) = SeqToBag(Embedded(chunk(docs[k])))
              /\ state[docs[k].source] = docs[k].ver
              /\ disk[docs[k].source] = docs[k].ver

\* C5: when the previous run completed successfully without skipping an item
\* and the source did not change since it loaded, this run loads no item and
\* does not touch the sink.
C5_Idempotent ==
    (/\ prev.pc = "Done"
     /\ prev.injected \cap {"parse", "fetch", "chunk"} = {}
     /\ HasLoaded
     /\ loadContent = prev.loadContent)
        => (docs = <<>> /\ table = table0 /\ pc = "Done")

\* C6: an insert failure in the sink propagates to the orchestrator, the run
\* fails and the ledger is not advanced, for both sinks.
C6_InsertFailureFatal ==
    "add" \in injected =>
        (sinkResult = "raise" /\ pc = "Failed" /\ state = state0 /\ disk = disk0)

\* C7: a run in which schema synthesis or the migration failed ends in Failed
\* and leaves the ledger as it was before the run.
C7_BatchErrorFatal ==
    (RunEnded /\ injected \cap {"schema", "migrate"} # {}) =>
        (pc = "Failed" /\ state = state0 /\ disk = disk0)

\* C8: once the sink call returned, the run records the fingerprint of exactly
\* the items that have a chunk in the successfully upserted batch.
C8_CommitExactlyBatch ==
    (RunEnded /\ sinkResult \in Returned) =>
        \A i \in Items :
            (state[i] # state0[i]) <=> (sinkResult = "ok" /\ i \in BatchSources(all_chunks))

\* C9: when the chunking of an item raises (and nothing else fails), the run is
\* not aborted: it ends in Done, the items that produced chunks are in the sink
\* and recorded in the ledger, and the failing item is not recorded.
C9_ChunkFailureDropsItem ==
    (RunEnded /\ chunkRaised # {} /\ injected = {"chunk"}) =>
        /\ pc = "Done"
        /\ \A i \in chunkRaised : state[i] = state0[i]
        /\ \A k \in 1..Len(docs) :
              docs[k].source \notin chunkRaised =>
                 /\ BatchOf(docs[k].source) # <<>>
                    => RowsOf(table, docs[k].source) = SeqToBag(BatchOf(docs[k].source))
                 /\ BatchOf(docs[k].source) # <<>>
                    => state[docs[k].source] # state0[docs[k].source]

\* C10: an item whose fetch or parse fails in the source is skipped: the other
\* changed items are returned (and, when nothing else fails, end up in the
\* sink), the failing item's ledger entry is not touched in this run, and the
\* next run reports it as changed again.
C10_SourceSkipsFailedItem ==
    /\ (HasLoaded /\ loadFailed # {}) =>
          /\ docs = DocsAtLoad(changed \ loadFailed)
          /\ \A i \in loadFailed : state[i] = state0[i] /\ disk[i] = disk0[i]
          /\ (pc = "Done" /\ injected \subseteq {"parse", "fetch"}) =>
                \A k \in 1..Len(docs) :
                    RowsOf(table, docs[k].source) = SeqToBag(Embedded(chunk(docs[k])))
    /\ (HasLoaded /\ prev.loadFailed # {}) => prev.loadFailed \subseteq changed

C10_Witness ==
    /\ prev.loadFailed = {"B"}
    /\ pc = "Done"
    /\ "B" \in BatchSources(all_chunks)
    /\ state["B"] = loadContent["B"]

\* C11: has_changed answers true exactly when the ledger has no fingerprint
\* for the item or has one that differs from the item's fingerprint, whatever
\* the item and the ledger, and the call leaves the ledger as it was.
C11_HasChangedExact ==
    /\ [](call.op = "has_changed" =>
            call.result = BoolStr(state[call.item] = NoHash \/ state[call.item] # call.fp))
    /\ [][call'.op = "has_changed" => state' = state]_vars

\* C12: after a fingerprint f was recorded for an item, the ledger holds f for
\* it, has_changed is false for f and true for every other fingerprint, and
\* recording f again leaves the ledger as it is.
C12_RecordRoundTrip ==
    (call.op = "record" /\ call.result = "ok") =>
        LET i == call.item
            f == call.fp
        IN  /\ state[i] = f
            /\ has_changed(i, srcType) = (get_file_hash(i, srcType) \notin {NoHash, f})
            /\ \A g \in 1..MaxVer : has_changed_hash(i, g, srcType) = (g # f)
            /\ update_file_state(state, i, f, srcType) = state
            /\ get_file_hash(i, srcType) = f => update_state(state, i, srcType) = state

C12_Witness ==
    /\ call.op = "record" /\ call.result = "ok" /\ call.again
    /\ call.given = NoHash
    /\ content[call.item] # call.fp
    /\ has_changed(call.item, srcType)

\* C13: when reading the backing store fails, the state manager starts with
\* the empty ledger and the run goes on, and no later call on that ledger
\* fails.
C13_LoadFallsBack ==
    /\ (call.op = "load" /\ call.result # "ok") =>
          (call.result = "fallback" /\ state = EmptyLedger /\ pc # "Failed")
    /\ call.fallback => call.result # "raise"

\* C14: while a run works on the documents its source returned (the ledger and
\* the items are as they were at load), every document belongs to an item for
\* which has_changed is true, and no item whose recorded fingerprint equals
\* its current one was returned, for every source type.
C14_OnlyChangedLoaded ==
    pc \in {"Chunking", "Embedding", "Upserting"} =>
        \A k \in 1..Len(docs) :
            /\ has_changed(docs[k].source, srcType)
            /\ state[docs[k].source] # content[docs[k].source]

\* C15: when the source returned no document, the run is Done, no chunk was
\* made or embedded, the sink was not called and holds what it held, and the
\* ledger in memory and on disk is the one the run started with.
C15_NoChangeNoOp ==
    (HasLoaded /\ docs = <<>>) =>
        /\ pc = "Done"
        /\ all_chunks = <<>> /\ processed_docs = <<>>
        /\ sinkResult = "none" /\ table = table0
        /\ state = state0 /\ disk = disk0

C15_Witness ==
    /\ prev.pc = "Done" /\ prev.changed = Items
    /\ HasLoaded /\ changed = {} /\ docs = <<>> /\ pc = "Done"
    /\ state = loadContent /\ table # EmptyBag

\* the sink call of this step returned normally after replacing the table's schema
Migrated ==
    /\ pc = "Upserting" /\ pc' = "Committing" /\ sinkResult' = "ok"
    /\ tableExists /\ tableSchema' # tableSchema

\* C16: a successful upsert that migrated the table keeps every stored row
\* whose origin is not in the incoming batch.
C16_MigrationKeepsRows ==
    [][Migrated =>
          \A o \in Items \ BatchSources(all_chunks) : RowsOf(table', o) = RowsOf(table, o)]_vars

\* C17: the schema in effect after an upsert has every field of the schema
\* stored before it.
C17_SchemaWideningAdditive ==
    [][(pc = "Upserting" /\ pc' = "Committing" /\ sinkResult' = "ok" /\ tableExists)
          => FieldNames(tableSchema) \subseteq FieldNames(tableSchema')]_vars

\* C18: when the delete-by-origin step fails (and the insert does not), the
\* sink call returns normally and the whole batch is in the sink, for both
\* sinks.
C18_DeleteFailureNotFatal ==
    ("delete" \in injected /\ "add" \notin injected) =>
        /\ sinkResult = "ok"
        /\ pc # "Failed"
        /\ \A k \in 1..Len(all_chunks) : BagIn(all_chunks[k], table)

\* C19: an upsert into a collection that does not exist, with no failure of
\* the store, creates it with the schema synthesized from the batch, inserts
\* the batch and returns normally.
C19_CreatesMissingCollection ==
    [][(pc = "Upserting" /\ pc' # pc /\ ~tableExists /\ injected' = injected)
          => /\ sinkResult' = "ok"
             /\ tableExists'
             /\ sinkKind = "lancedb"
                  => tableSchema' = create_dynamic_pydantic_model(Metadatas(all_chunks)).fields
             /\ table' = SeqToBag(all_chunks)]_vars

\* C20: with a component type that is missing, empty or not in its registry,
\* build_component raises ValueError for it and every run fails at the build:
\* nothing is loaded, the sink is not written and the ledger is not written.
BadRoles == {r \in 1..Len(Roles) : config[Roles[r]] \in BadTypes}

C20_ConfigErrorBeforeEffects ==
    BadRoles # {} =>
        /\ \A r \in BadRoles :
              build_component(config[Roles[r]], Registry(impl, Roles[r])) = "ValueError"
        /\ runs > 0 =>
              /\ pc = "Failed" /\ failedAt = "build"
              /\ loadContent = [i \in Items |-> 0] /\ docs = <<>>
              /\ sinkResult = "none" /\ table = EmptyBag
              /\ state = EmptyLedger /\ disk = EmptyLedger

C20_Witness ==
    /\ config.sink = "invalid_type" /\ config.source = "local_files"
    /\ runs = MaxRuns /\ pc = "Failed" /\ failedAt = "build"
    /\ content # [i \in Items |-> 1]

\* the steps of a run in the order of the orchestrator's code
StepOrder ==
    {<<"Idle", "Loading">>, <<"Done", "Loading">>, <<"Failed", "Loading">>,
     <<"Loading", "Chunking">>, <<"Loading", "Done">>,
     <<"Chunking", "Embedding">>, <<"Chunking", "Done">>,
     <<"Embedding", "Upserting">>, <<"Upserting", "Committing">>,
     <<"Committing", "Done">>}

\* the batch holds, for every loaded document, all of its chunks or none
FullBatch ==
    /\ \A k \in 1..Len(docs) :
          BatchOf(docs[k].source) \in {<<>>, chunk(docs[k]), Embedded(chunk(docs[k]))}
    /\ BatchSources(all_chunks) \subseteq BatchSources(docs)

\* C21: a run passes through Loading, Chunking, Embedding, Upserting and
\* Committing in this order (or leaves to Done / Failed), a step starts only
\* when the previous one has finished, and the sink is called at most once per
\* run, with all chunks of the run.
C21_StepsInOrder ==
    /\ [](/\ pc \in {"Embedding", "Upserting", "Committing"} => (pending = {} /\ FullBatch)
          /\ pc \in {"Upserting", "Committing"} =>
                \A k \in 1..Len(all_chunks) : all_chunks[k].embedding # NoEmbedding
          /\ pc \in {"Loading", "Chunking", "Embedding", "Upserting"} => sinkResult = "none"
          /\ sinkResult = "ok" => \A k \in 1..Len(all_chunks) : BagIn(all_chunks[k], table))
    /\ [][/\ (pc' # pc /\ pc' # "Failed") => <<pc, pc'>> \in StepOrder
          /\ sinkResult' # sinkResult =>
                \/ (pc = "Upserting" /\ sinkResult = "none")
                \/ (pc' = "Loading" /\ sinkResult' = "none")
                \/ (pc' = "Failed" /\ failedAt' = "build" /\ sinkResult' = "none")]_vars

C21_Witness ==
    /\ pc = "Done" /\ sinkResult = "ok" /\ Len(docs) = 2
    /\ BatchSources(all_chunks) = Items /\ state = loadContent

\* the run ended with an exception that left run_pipeline
Escaped ==
    /\ pc = "Failed"
    /\ ~run_pipeline_catches(impl, failedAt,
                             IF failedAt = "build" THEN build_components(impl, config, Roles)
                             ELSE "Exception")

\* C22: a failure at any step ends the run in Failed inside run_pipeline; the
\* exception does not leave run_pipeline.
C22_FailureDoesNotEscape ==
    pc = "Failed" => ~Escaped

\* C28: every chunk carries the origin of the document it was cut from, for
\* both splitters the adaptive chunker chooses from, so the chunks of one item
\* have one origin.
C28_ChunkKeepsOrigin ==
    /\ \A k \in 1..Len(docs) :
          \A j \in 1..Len(chunk(docs[k])) : chunk(docs[k])[j].source = docs[k].source
    /\ \A k \in 1..Len(all_chunks) :
          \E j \in 1..Len(docs) :
              /\ all_chunks[k].source = docs[j].source
              /\ all_chunks[k].ver = docs[j].ver
              /\ all_chunks[k].kind = decide_strategy(docs[j].ver)

C28_Witness ==
    /\ pc = "Upserting"
    /\ \E a, b \in 1..Len(all_chunks) :
          /\ all_chunks[a].kind = "markdown" /\ all_chunks[b].kind = "recursive"
          /\ all_chunks[a].source # all_chunks[b].source

\* C29: in the batch the chunks of one document are in increasing chunk index
\* order, whatever the order in which the chunking tasks completed.
C29_ChunkOrderKept ==
    \A o \in Items :
        \A a, b \in 1..Len(BatchOf(o)) :
            a < b => BatchOf(o)[a].idx < BatchOf(o)[b].idx

C29_Witness ==
    /\ impl = "yamlpipe" /\ pc = "Upserting" /\ Len(docs) = 2
    /\ all_chunks[1].source = docs[2].source
    /\ Len(BatchOf(docs[1].source)) = 2

\* the sink call of this step found its collection with the schema of the
\* batch and met no failure
PlainUpsert ==
    /\ pc = "Upserting" /\ pc' # pc /\ injected' = injected
    /\ all_chunks # <<>> /\ tableExists
    /\ sinkKind = "lancedb" => tableSchema = create_dynamic_pydantic_model(Metadatas(all_chunks)).fields

\* C30: an upsert into an existing collection with a matching schema deletes
\* the stored rows of every origin of the batch before it inserts, and inserts
\* one record per chunk: afterwards each origin of the batch has exactly the
\* chunks of the batch and the other origins have what they had.
C30_DeleteBeforeInsert ==
    [][PlainUpsert =>
          /\ sinkResult' = "ok"
          /\ \A o \in BatchSources(all_chunks) : RowsOf(table', o) = SeqToBag(BatchOf(o))
          /\ \A o \in Items \ BatchSources(all_chunks) : RowsOf(table', o) = RowsOf(table, o)
          /\ BagCardinality(table') =
                BagCardinality(DeleteBySource(table, BatchSources(all_chunks)))
                + Len(all_chunks)]_vars

\* a plain upsert that replaced stored rows of one origin and kept another's
C30_Witness ==
    /\ pc = "Committing" /\ sinkResult = "ok" /\ injected \subseteq {"parse"}
    /\ \E o \in BatchSources(all_chunks) : RowsOf(table0, o) # EmptyBag
    /\ \E o \in Items \ BatchSources(all_chunks) : RowsOf(table, o) # EmptyBag
    /\ tableSchema = create_dynamic_pydantic_model(Metadatas(all_chunks)).fields

\* C23: for the PostgreSQL source the ledger's last_run_timestamp is a
\* high-water mark: a run that wrote its rows to the sink and ends in Done
\* leaves it greater than it was when the run loaded, and
\* a load that starts with a recorded timestamp returns only rows whose
\* timestamp column is greater than the recorded value.
C23_HighWaterMark ==
    [][/\ (pc # "Done" /\ pc' = "Done" /\ sinkResult' = "ok")
            => pg'.last_run_timestamp > pg'.last_run_ts
       /\ (pc = "Loading" /\ pc' # "Loading" /\ pg.last_run_timestamp # 0)
            => \A i \in pg'.rows : pg.updated_at[i] > pg.last_run_timestamp]_vars

Unsupported(md) ==
    \E k \in 1..Len(md) : md[k][1] # "embedding" /\ md[k][2] \notin TYPE_MAP

\* C24: when a chunk's metadata holds a value of an unsupported type under a
\* key other than embedding, schema synthesis raises an error; it returns no
\* schema for such a batch.
C24_UnsupportedTypeRaises ==
    \A n \in 1..Len(schemas) :
        (\E c \in 1..Len(batch) : Unsupported(batch[c])) => schemas[n].err # "none"

TypesOf(key) ==
    {batch[c][k][2] : <<c, k>> \in {x \in (1..Len(batch)) \X (1..Cardinality(GenericKeys) + 1) :
                                       x[2] <= Len(batch[x[1]]) /\ batch[x[1]][x[2]][1] = key}}
FirstType(key) ==
    Get(batch[Min({c \in 1..Len(batch) : HasKey(batch[c], key)})], key)[2]
BatchKeys == UNION {FieldNames(batch[c]) : c \in 1..Len(batch)}
MixedKeys ==
    {key \in BatchKeys : TypesOf(key) \subseteq TYPE_MAP /\ Cardinality(TypesOf(key)) > 1}

\* C25: when a metadata key has values of different supported types in
\* different chunks of the batch, the schema gives the field the type of the
\* first chunk in batch order that carries the key, and the record of every
\* chunk holds the chunk's own value of the key, type unchanged.
C25_FirstSeenTypeNoCoercion ==
    /\ \A n \in 1..Len(schemas) :
          schemas[n].err = "none" =>
             \A key \in MixedKeys :
                /\ HasKey(schemas[n].fields, key)
                /\ Get(schemas[n].fields, key)[2] = FirstType(key)
    /\ records # <<>> =>
          \A key \in MixedKeys : \A c \in 1..Len(batch) :
             HasKey(batch[c], key) =>
                /\ HasKey(records[c], key)
                /\ Get(records[c], key) = Get(batch[c], key)

C25_Witness ==
    /\ MixedKeys # {}
    /\ schemas # <<>> /\ schemas[1].err = "none"
    /\ records # <<>>
    /\ \E key \in MixedKeys : \E c \in 1..Len(batch) :
          HasKey(batch[c], key) /\ Get(batch[c], key)[2] # FirstType(key)

NoVector(md) == ~HasKey(md, "embedding") \/ Get(md, "embedding")[2] # "ndarray"

\* C26: schema synthesis raises an error when the batch is empty or its first
\* chunk has no vector-valued embedding; otherwise the schema it returns has
\* a vector field whose width is the embedding dimensionality of the first
\* chunk, whatever the embeddings of the later chunks.
C26_WidthFromFirstChunk ==
    \A n \in 1..Len(schemas) :
        IF batch = <<>> \/ NoVector(batch[1])
        THEN schemas[n].err # "none"
        ELSE schemas[n].err = "none" =>
                /\ HasKey(schemas[n].fields, "vector")
                /\ Get(schemas[n].fields, "vector")
                      = <<"vector", "Vector", Get(batch[1], "embedding")[3]>>

\* the first place (chunk, position) where a key has a value of a supported type
Places(key) ==
    {x \in (1..Len(batch)) \X (1..Cardinality(GenericKeys) + 1) :
        /\ x[2] <= Len(batch[x[1]])
        /\ batch[x[1]][x[2]][1] = key
        /\ batch[x[1]][x[2]][2] \in TYPE_MAP}
Before(x, y) == x[1] < y[1] \/ (x[1] = y[1] /\ x[2] < y[2])
FirstPlace(key) == CHOOSE x \in Places(key) : \A y \in Places(key) : x = y \/ Before(x, y)
DiscoveredKeys == {key \in BatchKeys \ {"embedding"} : Places(key) # {}}

\* C27: the schema is the text field and the vector field followed by one
\* field per discovered metadata key, in the order of first discovery (batch
\* order, then key order within a chunk); embedding is never a field of it;
\* and two syntheses from the same batch give the same schema.
C27_SchemaOrder ==
    /\ \A n \in 1..Len(schemas) :
          schemas[n].err = "none" =>
             LET f == schemas[n].fields
             IN  /\ Len(f) = 2 + Cardinality(DiscoveredKeys)
                 /\ f[1] = <<"text", "str", 0>>
                 /\ f[2][1] = "vector" /\ f[2][2] = "Vector"
                 /\ {f[k][1] : k \in 3..Len(f)} = DiscoveredKeys
                 /\ \A j, k \in 3..Len(f) :
                       j < k => Before(FirstPlace(f[j][1]), FirstPlace(f[k][1]))
                 /\ "embedding" \notin FieldNames(f)
    /\ \A n, m \in 1..Len(schemas) : schemas[n] = schemas[m]

\* C31: embedding starts only after every chunking task has finished, and
\* whatever the completion order the documents marked as processed are
\* exactly the loaded documents whose task returned at least one chunk, each
\* marked once, and the chunks of the batch that carry a document's origin are
\* the chunks of that document.
C31_JoinBarrier ==
    pc \in {"Embedding", "Upserting", "Committing"} =>
        /\ pending = {}
        /\ impl = "yamlpipe" =>
              /\ {processed_docs[k] : k \in 1..Len(processed_docs)}
                    = {docs[k] : k \in {j \in 1..Len(docs) : BatchOf(docs[j].source) # <<>>}}
              /\ \A j, k \in 1..Len(processed_docs) :
                    j # k => processed_docs[j] # processed_docs[k]
              /\ \A k \in 1..Len(processed_docs) :
                    BatchOf(processed_docs[k].source)
                        \in {chunk(processed_docs[k]), Embedded(chunk(processed_docs[k]))}

C31_Witness ==
    /\ impl = "yamlpipe" /\ pc = "Embedding"
    /\ Len(docs) = Cardinality(Items)
    /\ processed_docs = <<docs[Len(docs)]>>

\* C32: every chunk of the batch handed to the sink carries the vector the
\* embedder computed from that chunk's own text, whatever the completion
\* order of the chunking tasks and whatever the size of the batch.
C32_OwnEmbedding ==
    pc \in {"Upserting", "Committing"} =>
        \A k \in 1..Len(all_chunks) :
            all_chunks[k].embedding = embed(<<ChunkText(all_chunks[k])>>)[1]

C32_Witness ==
    /\ pc = "Upserting" /\ impl = "yamlpipe"
    /\ Len(all_chunks) > Cardinality(Items)
    /\ all_chunks[1].source # ItemOrder[1]

\* C33: a fingerprint recorded for an item in a run is the fingerprint of the
\* content the run loaded for it (and wrote to the sink), also when the item
\* is modified between the load and the commit.
C33_CommitsLoadedFingerprint ==
    \A i \in Items : state[i] # state0[i] => state[i] = loadContent[i]

\* C34: when a run without any other fault was interrupted after its sink
\* insert and before the ledger commit, and the following run over the unchanged source goes through
\* without any fault, that run ends in Done, has reprocessed the items of the
\* interrupted run, leaves exactly one copy of each of their chunks in the
\* sink, and the ledger records them.
C34_SafeReingestion ==
    (/\ prev.pc = "Failed" /\ prev.failedAt = "commit" /\ prev.injected = {}
     /\ prev.loadContent = content /\ loadContent = content
     /\ RunEnded /\ injected = {})
        => /\ pc = "Done"
           /\ \A i \in prev.changed \ prev.loadFailed :
                 /\ i \in changed
                 /\ RowsOf(table, i)
                       = SeqToBag(Embedded(chunk([source |-> i, ver |-> content[i]])))
                 /\ state[i] = content[i] /\ disk[i] = content[i]

\* C35: when a run is in Done after its sink call returned, the ledger in the
\* backing store equals the in-memory ledger of the run.
C35_DoneMeansPersisted ==
    (pc = "Done" /\ sinkResult \in Returned) => disk = state

C37_PersistLoadRoundTrip ==
    /\ (call.op = "load" /\ call.result = "ok") =>
          /\ store # <<>>
          /\ state = disk
          /\ pg.last_run_timestamp = pg.stored
    /\ (call.op = "load" /\ call.result = "new") =>
          (state = EmptyLedger /\ pg.last_run_timestamp = 0)

C37_Witness ==
    /\ call.op = "load" /\ call.result = "ok"
    /\ backend = "redis"
    /\ \E i, j \in Items : state[i] # NoHash /\ state[j] = NoHash
    /\ pg.last_run_timestamp # 0

TypeOK ==
    /\ impl \in Impls /\ sinkKind \in SinkKinds /\ srcType \in SourceTypes(impl)
    /\ content \in [Items -> 1..MaxVer]
    /\ disk \in [Items -> 0..MaxVer]
    /\ state \in [Items -> 0..MaxVer]
    /\ tableExists \in BOOLEAN
    /\ pc \in {"Idle", "Loading", "Chunking", "Embedding", "Upserting",
               "Committing", "Done", "Failed"}
    /\ runs \in 0..MaxRuns
    /\ faults \in 0..MaxFaults
    /\ config \in Configs(srcType, sinkKind)

====
